---- MODULE Spec2Model ----
\* State-machine model of the comics-paper backend: the comic and chapter
\* controllers over the relational tables, and the user routes
\* (signup, signin, profile update).
EXTENDS Integers, Sequences, FiniteSets, TLC

VARIABLES comics, comicBookTags, chapters, users, proc, last, nextComic, nextChapter, viewIssued, createdTags, deleted, req, userPermissions,
          comic, loading, uploads, saved

vars == <<comics, comicBookTags, chapters, users, proc, last, nextComic, nextChapter, viewIssued, createdTags, deleted, req, userPermissions, comic, loading, uploads, saved>>
comicVars == <<comics, comicBookTags, chapters, proc, last, nextComic, nextChapter, viewIssued, createdTags, deleted>>
userVars == <<users, req, userPermissions>>
clientVars == <<comic, loading, uploads, saved>>

\* ---------------------------------------------------------------- bounds
NumProcs == 2
SeqMaxComics == 1
ConcMaxComics == 1
MaxChapters == 1
MaxNameLen == 2
MaxTagRows == 2
MaxViews == 2
MaxUploads == 1
FrameMaxComics == 2
NumReqs == 2

\* ---------------------------------------------------------------- values
Procs == 1..NumProcs
SeqProcs == {1}
\* JavaScript undefined (an omitted argument) and SQL NULL
UNDEFINED == "undefined"
NULL == "null"
\* JavaScript truthiness of a string argument, and of an id argument
Truthy(v) == v # "" /\ v # UNDEFINED /\ v # NULL
TruthyId(id) == id # <<>>

ComicUuid(n) == <<"comic", n>>
ChapterUuid(n) == <<"chapter", n>>
UserUuid(n) == <<"user", n>>
\* a well-formed UUID that names no row of any table
StrayUuid == <<"stray", 0>>
\* strings that are not UUIDs: the empty string and a number
NonUuids == {<<>>, <<"42", 0>>}
\* validator.isUUID
IsUUID(id) == id # <<>> /\ id[1] \in {"comic", "chapter", "user", "stray"}
BadIdNoUuidCheck(id) == ~TruthyId(id)
\* the guard every id-accepting controller function starts with
BadId(id) == ~TruthyId(id) \/ ~IsUUID(id)

\* rows of the resources and comic_tags tables (no code of src writes them)
Resources == {"r1"}
ComicTags == {"t1"}
TagIds == {"t1", "t2"}
ThumbnailInputs == {UNDEFINED, "r1", "r9"}

SeqsUpTo(S, n) == UNION {[1..k -> S] : k \in 0..n}

\* ---------------------------------------------------------------- slugify
NameChars == {"A", " ", "!"}
Names == SeqsUpTo(NameChars, MaxNameLen)
ConcNames == {<<"A">>}
RemoveChars == {"*", "+", "~", ".", "(", ")", "'", "\"", "!", ":", "@"}
UpperChars == {"A"}
IsSpace(ch) == ch = " "
Lower(ch) == IF ch = "A" THEN "a" ELSE ch

RECURSIVE TrimLeft(_)
TrimLeft(s) == IF s # <<>> /\ IsSpace(Head(s)) THEN TrimLeft(Tail(s)) ELSE s

RECURSIVE TrimRight(_)
TrimRight(s) == IF s # <<>> /\ IsSpace(s[Len(s)]) THEN TrimRight(SubSeq(s, 1, Len(s) - 1)) ELSE s

\* slug.replace(/\s+/g, "-"): every run of whitespace becomes one dash
RECURSIVE ReplaceSpaces(_)
ReplaceSpaces(s) ==
  IF s = <<>> THEN <<>>
  ELSE IF IsSpace(Head(s)) THEN <<"-">> \o ReplaceSpaces(TrimLeft(s))
  ELSE <<Head(s)>> \o ReplaceSpaces(Tail(s))

RemoveOption(s) == SelectSeq(s, LAMBDA ch : ch \notin RemoveChars)
ToLowerCase(s) == [i \in 1..Len(s) |-> Lower(s[i])]

\* slugify(name, { lower: true, remove: /[*+~.()'"!:@]/g })
Slugify(name) == ToLowerCase(ReplaceSpaces(TrimRight(TrimLeft(RemoveOption(name)))))

\* ---------------------------------------------------------------- tables
NoRow == [id |-> <<>>, name |-> <<>>, description |-> "", postedBy |-> <<>>, thumbnail |-> NULL, slug |-> <<>>, likes |-> 0, views |-> 0, author |-> "", category |-> ""]
NoChapter == [id |-> <<>>, name |-> "", comicId |-> <<>>, postedBy |-> <<>>, viewType |-> 0, createdAt |-> 0, length |-> 0]
\* an omitted number of the filter argument
Omitted == -1
\* getChaptersFromComic called without a filter, or with none of its fields
NoFilter == [limit |-> Omitted, page |-> Omitted, sortedBy |-> UNDEFINED, order |-> UNDEFINED]
Idle == [pc |-> "idle", op |-> "none", id |-> <<>>, row |-> NoRow, chap |-> NoChapter, tags |-> <<>>, q |-> 0, found |-> FALSE, filter |-> NoFilter]

UserIdsOf(us) == {u.id : u \in us}
ComicIds == DOMAIN comics
ChapterIds == DOMAIN chapters
\* ids a caller can hold: those of comics or chapters some call has returned
KnownComicIds == ComicIds \cup deleted

\* the comic object createComic builds (an omitted thumbnail is stored as NULL)
NewComic(id, name, description, postedBy, author, category, thumbnail) ==
  [id |-> id, name |-> name, description |-> description, postedBy |-> postedBy,
   thumbnail |-> IF thumbnail = UNDEFINED THEN NULL ELSE thumbnail,
   slug |-> Slugify(name), likes |-> 0, views |-> 0, author |-> author, category |-> category]

UpdatedComicResetsViews(row, u) ==
  [row EXCEPT !.name = u.name, !.description = u.description, !.author = u.author,
              !.category = u.category, !.slug = Slugify(u.name), !.views = 0,
              !.thumbnail = IF u.thumbnail = NULL THEN @ ELSE u.thumbnail]
UpdatedComicStaleSlug(row, u) ==
  [row EXCEPT !.name = u.name, !.description = u.description, !.author = u.author,
              !.category = u.category,
              !.thumbnail = IF u.thumbnail = NULL THEN @ ELSE u.thumbnail]
\* the columns updateComic sets (u is the pending update; an undefined thumbnail
\* is dropped from the SET list, which u carries as NULL)
UpdatedComic(row, u) ==
  [row EXCEPT !.name = u.name, !.description = u.description, !.author = u.author,
              !.category = u.category, !.slug = Slugify(u.name),
              !.thumbnail = IF u.thumbnail = NULL THEN @ ELSE u.thumbnail]

\* tags.map((_tag) => ({ comicId: id, tagId: _tag }))
InsertTags(id, tags, src) == [i \in 1..Len(tags) |-> [comicId |-> id, tagId |-> tags[i], src |-> src]]

\* foreign keys of the comics table: postedBy -> users, thumbnail -> resources
ComicForeignKeysOk(row) ==
  /\ row.postedBy \in UserIdsOf(users)
  /\ row.thumbnail = NULL \/ row.thumbnail \in Resources
\* foreign keys of the chapters table: comicId -> comics, postedBy -> users
ChapterForeignKeysOk(ch) == ch.comicId \in ComicIds /\ ch.postedBy \in UserIdsOf(users)
\* a comic that chapters still reference cannot be deleted
ComicDeleteRestricted(id) == \E c \in ChapterIds : chapters[c].comicId = id

Remove(f, k) == [x \in DOMAIN f \ {k} |-> f[x]]
Put(f, k, v) == [x \in DOMAIN f \cup {k} |-> IF x = k THEN v ELSE f[x]]

PendingTagRows == LET RECURSIVE Sum(_)
                      Sum(S) == IF S = {} THEN 0 ELSE LET p == CHOOSE x \in S : TRUE IN Len(proc[p].tags) + Sum(S \ {p})
                  IN Sum({p \in Procs : proc[p].pc \in {"insertComic", "updateRow", "insertTags", "commit"}})

NoLast == [op |-> "none", ids |-> {}, result |-> "ok", q |-> 0, tags |-> <<>>, filter |-> NoFilter, chapters |-> <<>>]

Done(p, op, ids, result, q, tags) ==
  /\ proc' = [proc EXCEPT ![p] = Idle]
  /\ last' = [NoLast EXCEPT !.op = op, !.ids = ids, !.result = result, !.q = q, !.tags = tags]
\* a call that throws before it awaits anything
Reject(p, op, ids) ==
  /\ proc[p].pc = "idle"
  /\ Done(p, op, ids, "error", 0, <<>>)
  /\ UNCHANGED <<comics, comicBookTags, chapters, nextComic, nextChapter, viewIssued, createdTags, deleted>>
  /\ UNCHANGED <<userVars, clientVars>>

\* ---------------------------------------------------------------- createComic
\* uuid(), the comic object, then await DatabaseBuilder.transaction()
CreateComicCall(p, cap, name, postedBy, tags, thumbnail) ==
  /\ proc[p].pc = "idle"
  /\ nextComic <= cap
  /\ Len(comicBookTags) + PendingTagRows + Len(tags) <= MaxTagRows
  /\ proc' = [proc EXCEPT ![p] = [Idle EXCEPT !.pc = "insertComic", !.op = "createComic", !.id = ComicUuid(nextComic), !.tags = tags,
                                              !.row = NewComic(ComicUuid(nextComic), name, "d", postedBy, "a", "Comic", thumbnail)]]
  /\ nextComic' = nextComic + 1
  /\ createdTags' = Put(createdTags, ComicUuid(nextComic), tags)
  /\ UNCHANGED <<comics, comicBookTags, chapters, nextChapter, viewIssued, deleted>>
  /\ last' = NoLast
  /\ UNCHANGED <<userVars, clientVars>>

\* await transaction(Tables.Comic).insert(comic)
CreateComicInsert(p) ==
  /\ proc[p].pc = "insertComic"
  /\ \E ok \in BOOLEAN :
       proc' = [proc EXCEPT ![p].q = @ + 1,
                            ![p].pc = IF ok /\ ComicForeignKeysOk(proc[p].row) THEN "insertTags" ELSE "rollback"]
  /\ UNCHANGED <<comics, comicBookTags, chapters, last, nextComic, nextChapter, viewIssued, createdTags, deleted>>
  /\ UNCHANGED <<userVars, clientVars>>

\* ---------------------------------------------------------------- updateComic
UpdateComicReject(p, id) ==
  /\ BadId(id)
  /\ Reject(p, "updateComic", {id})

UpdateComicCall(p, id, name, tags, thumbnail) ==
  /\ proc[p].pc = "idle"
  /\ ~BadId(id)
  /\ Len(comicBookTags) + PendingTagRows + Len(tags) <= MaxTagRows
  /\ proc' = [proc EXCEPT ![p] = [Idle EXCEPT !.pc = "updateRow", !.op = "updateComic", !.id = id, !.tags = tags,
                                              !.row = NewComic(id, name, "d", <<>>, "a", "Comic", thumbnail)]]
  /\ UNCHANGED <<comics, comicBookTags, chapters, nextComic, nextChapter, viewIssued, createdTags, deleted>>
  /\ last' = NoLast
  /\ UNCHANGED <<userVars, clientVars>>

\* await transaction(Tables.Comic).where({ id }).update({...}); a row that is
\* not there makes the statement update nothing, which is no error
UpdateComicUpdate(p) ==
  /\ proc[p].pc = "updateRow"
  /\ \E ok \in BOOLEAN :
       LET fk == proc[p].id \in ComicIds => (proc[p].row.thumbnail = NULL \/ proc[p].row.thumbnail \in Resources)
       IN proc' = [proc EXCEPT ![p].q = @ + 1,
                               ![p].pc = IF ok /\ fk THEN "insertTags" ELSE "rollback"]
  /\ UNCHANGED <<comics, comicBookTags, chapters, last, nextComic, nextChapter, viewIssued, createdTags, deleted>>
  /\ UNCHANGED <<userVars, clientVars>>

\* ---------------------------------------------------------------- the transaction
\* await transaction(Tables.ComicBookTag).insert(insertTags); an empty list
\* issues no statement
TxInsertTags(p) ==
  /\ proc[p].pc = "insertTags"
  /\ \E ok \in BOOLEAN :
       IF proc[p].tags = <<>>
       THEN proc' = [proc EXCEPT ![p].pc = "commit"]
       ELSE proc' = [proc EXCEPT ![p].q = @ + 1, ![p].pc = IF ok THEN "commit" ELSE "rollback"]
  /\ UNCHANGED <<comics, comicBookTags, chapters, last, nextComic, nextChapter, viewIssued, createdTags, deleted>>
  /\ UNCHANGED <<userVars, clientVars>>

\* the comics table once the transaction of call c is committed
CommittedComics(cs, c) ==
  IF c.op = "createComic" THEN Put(cs, c.id, c.row)
  ELSE IF c.id \in DOMAIN cs THEN [cs EXCEPT ![c.id] = UpdatedComic(@, c.row)]
  ELSE cs
CommittedTags(rows, c) == rows \o InsertTags(c.id, c.tags, c.op)

\* the comics table once the transaction of call c is rolled back
RolledBackComics(cs, c) == cs

\* await transaction.commit(), which may fail and then lands in the catch block
TxCommit(p) ==
  /\ proc[p].pc = "commit"
  /\ \E ok \in BOOLEAN :
       IF ok
       THEN /\ comics' = CommittedComics(comics, proc[p])
            /\ comicBookTags' = CommittedTags(comicBookTags, proc[p])
            /\ Done(p, proc[p].op, IF proc[p].op = "updateComic" THEN {proc[p].id} ELSE {}, "ok", proc[p].q, <<>>)
       ELSE /\ proc' = [proc EXCEPT ![p].pc = "rollback"]
            /\ UNCHANGED <<comics, comicBookTags, last>>
  /\ UNCHANGED <<chapters, nextComic, nextChapter, viewIssued, createdTags, deleted>>
  /\ UNCHANGED <<userVars, clientVars>>

\* catch (e) { await transaction.rollback(); throw e; }
TxRollback(p) ==
  /\ proc[p].pc = "rollback"
  /\ comics' = RolledBackComics(comics, proc[p])
  /\ Done(p, proc[p].op, IF proc[p].op = "updateComic" THEN {proc[p].id} ELSE {}, "error", proc[p].q, <<>>)
  /\ UNCHANGED <<comicBookTags, chapters, nextComic, nextChapter, viewIssued, createdTags, deleted>>
  /\ UNCHANGED <<userVars, clientVars>>

\* ---------------------------------------------------------------- deleteComic
DeleteComicReject(p, id) ==
  /\ BadId(id)
  /\ Reject(p, "deleteComic", {id})

DeleteComicCall(p, id) ==
  /\ proc[p].pc = "idle"
  /\ ~BadId(id)
  /\ proc' = [proc EXCEPT ![p] = [Idle EXCEPT !.pc = "delete", !.op = "deleteComic", !.id = id]]
  /\ UNCHANGED <<comics, comicBookTags, chapters, nextComic, nextChapter, viewIssued, createdTags, deleted>>
  /\ last' = NoLast
  /\ UNCHANGED <<userVars, clientVars>>

\* await DatabaseBuilder(Tables.Comic).where({ id }).del()
DeleteComicQuery(p) ==
  /\ proc[p].pc = "delete"
  /\ IF proc[p].id \in ComicIds /\ ~ComicDeleteRestricted(proc[p].id)
     THEN /\ comics' = Remove(comics, proc[p].id)
          /\ deleted' = deleted \cup {proc[p].id}
     ELSE UNCHANGED <<comics, deleted>>
  /\ Done(p, "deleteComic", {proc[p].id}, IF ComicDeleteRestricted(proc[p].id) THEN "error" ELSE "ok", 1, <<>>)
  /\ UNCHANGED <<comicBookTags, chapters, nextComic, nextChapter, viewIssued, createdTags>>
  /\ UNCHANGED <<userVars, clientVars>>

\* ---------------------------------------------------------------- updateViewComic
UpdateViewComicReject(p, id) ==
  /\ BadId(id)
  /\ Reject(p, "updateViewComic", {id})

Issued(id) == IF id \in DOMAIN viewIssued THEN viewIssued[id] ELSE 0

UpdateViewComicCall(p, id) ==
  /\ proc[p].pc = "idle"
  /\ ~BadId(id)
  /\ Issued(id) < MaxViews
  /\ proc' = [proc EXCEPT ![p] = [Idle EXCEPT !.pc = "view", !.op = "updateViewComic", !.id = id]]
  /\ viewIssued' = IF id \in ComicIds THEN Put(viewIssued, id, Issued(id) + 1) ELSE viewIssued
  /\ UNCHANGED <<comics, comicBookTags, chapters, nextComic, nextChapter, createdTags, deleted>>
  /\ last' = NoLast
  /\ UNCHANGED <<userVars, clientVars>>

ViewsOverwritten(row) == [row EXCEPT !.views = 1]
\* update({ views: DatabaseBuilder.raw("views + 1") })
ViewsPlusOne(row) == [row EXCEPT !.views = @ + 1]

\* await DatabaseBuilder(Tables.Comic).where({ id }).update(...): one statement
UpdateViewComicQuery(p) ==
  /\ proc[p].pc = "view"
  /\ comics' = IF proc[p].id \in ComicIds THEN [comics EXCEPT ![proc[p].id] = ViewsPlusOne(@)] ELSE comics
  /\ Done(p, "updateViewComic", {proc[p].id}, "ok", 1, <<>>)
  /\ UNCHANGED <<comicBookTags, chapters, nextComic, nextChapter, viewIssued, createdTags, deleted>>
  /\ UNCHANGED <<userVars, clientVars>>

\* ---------------------------------------------------------------- getComic
GetComicReject(p, id) ==
  /\ BadId(id)
  /\ Reject(p, "getComic", {id})

GetComicCall(p, id) ==
  /\ proc[p].pc = "idle"
  /\ ~BadId(id)
  /\ proc' = [proc EXCEPT ![p] = [Idle EXCEPT !.pc = "readComic", !.op = "getComic", !.id = id]]
  /\ UNCHANGED <<comics, comicBookTags, chapters, nextComic, nextChapter, viewIssued, createdTags, deleted>>
  /\ last' = NoLast
  /\ UNCHANGED <<userVars, clientVars>>

\* const comic = await DatabaseBuilder(Tables.Comic).where({ id }).first();
\* with no such row comic is undefined and comic.thumbnail throws
GetComicReadComic(p) ==
  /\ proc[p].pc = "readComic"
  /\ IF proc[p].id \in ComicIds
     THEN /\ proc' = [proc EXCEPT ![p].pc = "readThumbnail", ![p].row = comics[proc[p].id], ![p].q = 1]
          /\ UNCHANGED last
     ELSE Done(p, "getComic", {proc[p].id}, "error", 1, <<>>)
  /\ UNCHANGED <<comics, comicBookTags, chapters, nextComic, nextChapter, viewIssued, createdTags, deleted>>
  /\ UNCHANGED <<userVars, clientVars>>

\* const thumbnailInfo = await DatabaseBuilder(Tables.Resource).where({ id: comic.thumbnail }).first()
GetComicReadThumbnail(p) ==
  /\ proc[p].pc = "readThumbnail"
  /\ proc' = [proc EXCEPT ![p].pc = "readTags", ![p].found = proc[p].row.thumbnail \in Resources, ![p].q = 2]
  /\ UNCHANGED <<comics, comicBookTags, chapters, last, nextComic, nextChapter, viewIssued, createdTags, deleted>>
  /\ UNCHANGED <<userVars, clientVars>>

TagIdsOfAllRows(rows, id) == [i \in 1..Len(SelectSeq(rows, LAMBDA r : r.comicId = id)) |-> SelectSeq(rows, LAMBDA r : r.comicId = id)[i].tagId]
\* comic_book_tags t1 JOIN comic_tags t2 ON t1.tagId = t2.id WHERE t1.comicId = id
JoinedTagIds(rows, id) ==
  LET joined == SelectSeq(rows, LAMBDA r : r.comicId = id /\ r.tagId \in ComicTags)
  IN [i \in 1..Len(joined) |-> joined[i].tagId]

\* the tag query, then { ...comic, thumbnailImg: thumbnailInfo.fileName, tags },
\* which throws when thumbnailInfo is undefined
GetComicReadTags(p) ==
  /\ proc[p].pc = "readTags"
  /\ Done(p, "getComic", {proc[p].id}, IF proc[p].found THEN "ok" ELSE "error", 3,
          IF proc[p].found THEN JoinedTagIds(comicBookTags, proc[p].id) ELSE <<>>)
  /\ UNCHANGED <<comics, comicBookTags, chapters, nextComic, nextChapter, viewIssued, createdTags, deleted>>
  /\ UNCHANGED <<userVars, clientVars>>

\* ---------------------------------------------------------------- hasComic
HasComicReject(p, id) ==
  /\ BadId(id)
  /\ Reject(p, "hasComic", {id})

HasComicCall(p, id) ==
  /\ proc[p].pc = "idle"
  /\ ~BadId(id)
  /\ proc' = [proc EXCEPT ![p] = [Idle EXCEPT !.pc = "has", !.op = "hasComic", !.id = id]]
  /\ UNCHANGED <<comics, comicBookTags, chapters, nextComic, nextChapter, viewIssued, createdTags, deleted>>
  /\ last' = NoLast
  /\ UNCHANGED <<userVars, clientVars>>

HasComicQuery(p) ==
  /\ proc[p].pc = "has"
  /\ Done(p, "hasComic", {proc[p].id}, "ok", 1, <<>>)
  /\ UNCHANGED <<comics, comicBookTags, chapters, nextComic, nextChapter, viewIssued, createdTags, deleted>>
  /\ UNCHANGED <<userVars, clientVars>>

\* ---------------------------------------------------------------- searchComic
\* slug and id default to "" and go into the query as they are
SearchComicCall(p, slug, id) ==
  /\ proc[p].pc = "idle"
  /\ proc' = [proc EXCEPT ![p] = [Idle EXCEPT !.pc = "search", !.op = "searchComic", !.id = id, !.row = [NoRow EXCEPT !.slug = slug]]]
  /\ UNCHANGED <<comics, comicBookTags, chapters, nextComic, nextChapter, viewIssued, createdTags, deleted>>
  /\ last' = NoLast
  /\ UNCHANGED <<userVars, clientVars>>

\* await DatabaseBuilder(Tables.Comic).where({ slug }).orWhere({ id }).first()
SearchComicQuery(p) ==
  /\ proc[p].pc = "search"
  /\ Done(p, "searchComic", {proc[p].id}, "ok", 1, <<>>)
  /\ UNCHANGED <<comics, comicBookTags, chapters, nextComic, nextChapter, viewIssued, createdTags, deleted>>
  /\ UNCHANGED <<userVars, clientVars>>

\* ---------------------------------------------------------------- createChapter
CreateChapterReject(p, name, comicId, postedBy) ==
  /\ ~Truthy(name) \/ ~TruthyId(comicId) \/ ~TruthyId(postedBy) \/ ~IsUUID(comicId) \/ ~IsUUID(postedBy)
  /\ Reject(p, "createChapter", {comicId, postedBy})

CreateChapterCall(p, name, comicId, postedBy, viewType) ==
  /\ proc[p].pc = "idle"
  /\ Truthy(name) /\ TruthyId(comicId) /\ TruthyId(postedBy)
  /\ IsUUID(comicId)
  /\ IsUUID(postedBy)
  /\ nextChapter <= MaxChapters
  /\ proc' = [proc EXCEPT ![p] = [Idle EXCEPT !.pc = "insertChapter", !.op = "createChapter",
                 !.chap = [id |-> ChapterUuid(nextChapter), name |-> name, comicId |-> comicId, postedBy |-> postedBy, viewType |-> viewType, createdAt |-> nextChapter, length |-> 0]]]
  /\ nextChapter' = nextChapter + 1
  /\ UNCHANGED <<comics, comicBookTags, chapters, nextComic, viewIssued, createdTags, deleted>>
  /\ last' = NoLast
  /\ UNCHANGED <<userVars, clientVars>>

\* await DatabaseBuilder(Tables.ComicChapter).insert(chapter)
CreateChapterInsert(p) ==
  /\ proc[p].pc = "insertChapter"
  /\ chapters' = IF ChapterForeignKeysOk(proc[p].chap) THEN Put(chapters, proc[p].chap.id, proc[p].chap) ELSE chapters
  /\ Done(p, "createChapter", {proc[p].chap.comicId, proc[p].chap.postedBy}, IF ChapterForeignKeysOk(proc[p].chap) THEN "ok" ELSE "error", 1, <<>>)
  /\ UNCHANGED <<comics, comicBookTags, nextComic, nextChapter, viewIssued, createdTags, deleted>>
  /\ UNCHANGED <<userVars, clientVars>>

\* ---------------------------------------------------------------- chapter reads and length
GetChaptersFromComicReject(p, comicId) ==
  /\ BadId(comicId)
  /\ Reject(p, "getChaptersFromComic", {comicId})

\* filter?.limit || 3
QueryLimit(filter) == IF filter.limit = Omitted \/ filter.limit = 0 THEN 3 ELSE filter.limit
\* filter?.page * filter?.limit || 0: the product is NaN when either is omitted
QueryOffset(filter) == IF filter.page = Omitted \/ filter.limit = Omitted THEN 0 ELSE filter.page * filter.limit
\* orderBy(filter?.sortedBy || "createdAt", filter?.order || "asc")
SortKey(ch, filter) == IF Truthy(filter.sortedBy) /\ filter.sortedBy = "length" THEN ch.length ELSE ch.createdAt
Before(a, b, filter) ==
  IF Truthy(filter.order) /\ filter.order = "desc" THEN SortKey(a, filter) >= SortKey(b, filter)
  ELSE SortKey(a, filter) <= SortKey(b, filter)
RECURSIVE OrderBy(_, _)
OrderBy(rows, filter) ==
  IF rows = {} THEN <<>>
  ELSE LET first == CHOOSE a \in rows : \A b \in rows : Before(a, b, filter)
       IN <<first>> \o OrderBy(rows \ {first}, filter)
\* where({ comicId }).limit(...).offset(...).orderBy(...)
SelectChapters(comicId, filter) ==
  LET ordered == OrderBy({chapters[c] : c \in {x \in ChapterIds : chapters[x].comicId = comicId}}, filter)
      from == QueryOffset(filter) + 1
      to == IF QueryOffset(filter) + QueryLimit(filter) < Len(ordered) THEN QueryOffset(filter) + QueryLimit(filter) ELSE Len(ordered)
  IN [i \in 1..(IF to >= from THEN to - from + 1 ELSE 0) |-> ordered[from + i - 1].id]

GetChaptersFromComicCall(p, comicId, filter) ==
  /\ proc[p].pc = "idle"
  /\ ~BadId(comicId)
  /\ proc' = [proc EXCEPT ![p] = [Idle EXCEPT !.pc = "listChapters", !.op = "getChaptersFromComic", !.id = comicId, !.filter = filter]]
  /\ UNCHANGED <<comics, comicBookTags, chapters, nextComic, nextChapter, viewIssued, createdTags, deleted>>
  /\ last' = NoLast
  /\ UNCHANGED <<userVars, clientVars>>

GetChaptersFromComicQuery(p) ==
  /\ proc[p].pc = "listChapters"
  /\ proc' = [proc EXCEPT ![p] = Idle]
  /\ last' = [NoLast EXCEPT !.op = "getChaptersFromComic", !.ids = {proc[p].id}, !.q = 1, !.filter = proc[p].filter,
                            !.chapters = SelectChapters(proc[p].id, proc[p].filter)]
  /\ UNCHANGED <<comics, comicBookTags, chapters, nextComic, nextChapter, viewIssued, createdTags, deleted>>
  /\ UNCHANGED <<userVars, clientVars>>

GetChapterReject(p, id) ==
  /\ BadId(id)
  /\ Reject(p, "getChapter", {id})

GetChapterCall(p, id) ==
  /\ proc[p].pc = "idle"
  /\ ~BadId(id)
  /\ proc' = [proc EXCEPT ![p] = [Idle EXCEPT !.pc = "readChapter", !.op = "getChapter", !.id = id]]
  /\ UNCHANGED <<comics, comicBookTags, chapters, nextComic, nextChapter, viewIssued, createdTags, deleted>>
  /\ last' = NoLast
  /\ UNCHANGED <<userVars, clientVars>>

GetChapterQuery(p) ==
  /\ proc[p].pc = "readChapter"
  /\ Done(p, "getChapter", {proc[p].id}, "ok", 1, <<>>)
  /\ UNCHANGED <<comics, comicBookTags, chapters, nextComic, nextChapter, viewIssued, createdTags, deleted>>
  /\ UNCHANGED <<userVars, clientVars>>

UpdateChapterLengthReject(p, chapterId) ==
  /\ BadId(chapterId)
  /\ Reject(p, "updateChapterLength", {chapterId})

UpdateChapterLengthCall(p, chapterId, length) ==
  /\ proc[p].pc = "idle"
  /\ ~BadId(chapterId)
  /\ proc' = [proc EXCEPT ![p] = [Idle EXCEPT !.pc = "setLength", !.op = "updateChapterLength", !.id = chapterId, !.chap = [NoChapter EXCEPT !.length = length]]]
  /\ UNCHANGED <<comics, comicBookTags, chapters, nextComic, nextChapter, viewIssued, createdTags, deleted>>
  /\ last' = NoLast
  /\ UNCHANGED <<userVars, clientVars>>

\* await DatabaseBuilder(Tables.ComicChapter).where({ id: chapterId }).update({ length })
UpdateChapterLengthQuery(p) ==
  /\ proc[p].pc = "setLength"
  /\ chapters' = IF proc[p].id \in ChapterIds THEN [chapters EXCEPT ![proc[p].id].length = proc[p].chap.length] ELSE chapters
  /\ Done(p, "updateChapterLength", {proc[p].id}, "ok", 1, <<>>)
  /\ UNCHANGED <<comics, comicBookTags, nextComic, nextChapter, viewIssued, createdTags, deleted>>
  /\ UNCHANGED <<userVars, clientVars>>

\* ---------------------------------------------------------------- user routes
Reqs == 1..NumReqs
SeqReqs == {1}
NoToken == [id |-> <<>>, generatedAt |-> ""]
NoBody == [id |-> <<>>, username |-> "", email |-> "", nickname |-> "", introduction |-> ""]
NoInput == [username |-> UNDEFINED, password |-> UNDEFINED, email |-> UNDEFINED, nickname |-> UNDEFINED, introduction |-> UNDEFINED, token |-> <<>>, id |-> <<>>]
NoResp == [status |-> 0, msg |-> "", body |-> NoBody, token |-> NoToken, role |-> "", permissions |-> {}]
IdleReq == [pc |-> "idle", route |-> "none", body |-> NoInput, resp |-> NoResp, calls |-> <<>>, uid |-> <<>>]

\* next(new MiddlewareError(message, status))
MiddlewareError(msg, status) == [NoResp EXCEPT !.status = status, !.msg = msg]

\* ValidatorUtils and validator/lib/isEmail
ValidNicknames == {"Ann", "Bo"}
ValidEmails == {"a@x", "b@x", "c@x"}
ValidIntroductions == {"hi"}
IsValidNickname(nickname) == nickname \in ValidNicknames
IsEmail(email) == email \in ValidEmails
IsValidIntroduction(introduction) == introduction = UNDEFINED \/ introduction \in ValidIntroductions

\* bcryptjs: a hash carries its salt; compareSync re-hashes the password with it
Hash(password, salt) == [plain |-> password, salt |-> salt]
CompareSyncAlwaysTrue(password, hash) == TRUE
CompareSync(password, hash) == hash.plain = password

\* the user_permissions table: permissionGroup defaults to PermissionGroupEnum.USER
DefaultPermission(userId) == [userId |-> userId, permissionGroup |-> "USER"]
\* the permissions each permission group holds
GroupPermissions(group) == IF group = "USER" THEN {"USER_UPDATE_PROFILE"} ELSE {}

\* a user of a permission group that does not hold USER_UPDATE_PROFILE
RestrictedUser == [id |-> UserUuid(2), username |-> "bob", password |-> [plain |-> "pw", salt |-> 2], email |-> "b@x", nickname |-> "Bo", introduction |-> ""]
RestrictedPermission == [userId |-> RestrictedUser.id, permissionGroup |-> "GUEST"]
GroupOf(userId) == {up.permissionGroup : up \in {x \in userPermissions : x.userId = userId}}
PermissionsOf(userId) == UNION {GroupPermissions(g) : g \in GroupOf(userId)}

\* UserController
HasUserByUsername(username) == \E u \in users : u.username = username
GetUserFromUsername(username) == {u \in users : u.username = username}
NewUser(username, password, email, nickname, introduction) ==
  [id |-> UserUuid(Cardinality(users) + 1), username |-> username, password |-> Hash(password, Cardinality(users) + 1),
   email |-> email, nickname |-> nickname, introduction |-> introduction]
\* the unique indexes of the users table
UniqueOk(u) == \A v \in users : v.id # u.id /\ v.username # u.username /\ v.password # u.password /\ v.email # u.email
UpdatedProfile(u, nickname, introduction) ==
  [u EXCEPT !.nickname = IF Truthy(nickname) THEN nickname ELSE @,
            !.introduction = IF Truthy(introduction) THEN introduction ELSE @]

Start(r, route, body) == [IdleReq EXCEPT !.pc = "start", !.route = route, !.body = body]
Respond(r, resp) == req' = [req EXCEPT ![r].pc = "done", ![r].resp = resp]
Await(r, pc, call) == req' = [req EXCEPT ![r].pc = pc, ![r].calls = Append(@, call)]

\* ---------------------------------------------------------------- UpdateComic form
\* React.useState of the form: the comic being edited
InitialComic == [thumbnail |-> NULL, thumbnailImg |-> UNDEFINED, name |-> "", description |-> "", author |-> "",
                 tags |-> <<>>, tagOptions |-> <<>>, category |-> "", categoryOption |-> NULL]
NothingSaved == [InitialComic EXCEPT !.name = "never"]
ClientInit ==
  /\ comic = InitialComic
  /\ loading = FALSE
  /\ uploads = {}
  /\ saved = NothingSaved

\* setComic({ ...comic, [name]: value }) with the comic of the current render
HandleChangeComicInfo(name, value) ==
  /\ comic' = [comic EXCEPT ![name] = value]
  /\ UNCHANGED <<loading, uploads, saved>>
  /\ UNCHANGED <<comicVars, userVars>>

\* setComic({ ...comic, category: selectedOption.value, categoryOption: selectedOption })
HandleChangeCategory(selectedOption) ==
  /\ comic' = [comic EXCEPT !.category = selectedOption.value, !.categoryOption = selectedOption.label]
  /\ UNCHANGED <<loading, uploads, saved>>
  /\ UNCHANGED <<comicVars, userVars>>

\* setComic({ ...comic, tags: selectedOptions.map(value), tagOptions: selectedOptions })
HandleChangeTags(selectedOptions) ==
  /\ comic' = [comic EXCEPT !.tags = [i \in 1..Len(selectedOptions) |-> selectedOptions[i].value],
                            !.tagOptions = [i \in 1..Len(selectedOptions) |-> selectedOptions[i].label]]
  /\ UNCHANGED <<loading, uploads, saved>>
  /\ UNCHANGED <<comicVars, userVars>>

\* handleChangeThumbnail up to await resourceApi.uploadImages(e.target.files):
\* the continuation keeps the comic of the render the handler was created in
HandleChangeThumbnail(files) ==
  /\ Cardinality(uploads) < MaxUploads
  /\ uploads' = IF Len(files) > 0 THEN uploads \cup {[closure |-> comic]} ELSE uploads
  /\ UNCHANGED <<comic, loading, saved>>
  /\ UNCHANGED <<comicVars, userVars>>

\* the state setComic({ ...comic, thumbnailImg, thumbnail: imgInfo.id }) sets,
\* comic being the one the continuation kept
MergedIntoClosure(current, closure, imgInfo) == [closure EXCEPT !.thumbnailImg = imgInfo.fileName, !.thumbnail = imgInfo.id]

\* the upload resolves
UploadResolves(u, imgInfo) ==
  /\ u \in uploads
  /\ uploads' = uploads \ {u}
  /\ comic' = MergedIntoClosure(comic, u.closure, imgInfo)
  /\ UNCHANGED <<loading, saved>>
  /\ UNCHANGED <<comicVars, userVars>>

\* the upload rejects: the catch block shows a toast
UploadRejects(u) ==
  /\ u \in uploads
  /\ uploads' = uploads \ {u}
  /\ UNCHANGED <<comic, loading, saved>>
  /\ UNCHANGED <<comicVars, userVars>>

\* handleSave: setLoading(true); await onSave(comic); the button is disabled
\* while loading
HandleSave ==
  /\ ~loading
  /\ loading' = TRUE
  /\ saved' = comic
  /\ UNCHANGED <<comic, uploads>>
  /\ UNCHANGED <<comicVars, userVars>>

\* onSave resolves (onClose) or rejects (toast); finally setLoading(false)
SaveSettles ==
  /\ loading
  /\ loading' = FALSE
  /\ UNCHANGED <<comic, uploads, saved>>
  /\ UNCHANGED <<comicVars, userVars>>

\* ---------------------------------------------------------------- specifications
TagLists == {<<>>, <<"t1">>, <<"t2">>, <<"t1", "t2">>}
ConcTagLists == {<<>>, <<"t1">>}
ComicIdInputs == KnownComicIds \cup {StrayUuid} \cup NonUuids
ChapterIdInputs == ChapterIds \cup {StrayUuid} \cup NonUuids
PosterInputs == {UserUuid(1), StrayUuid}
ChapterPosterInputs == {UserUuid(1), StrayUuid, <<"42", 0>>}
ChapterNames == {"", "ch"}
ChapterLengths == {0}

\* a registered user, as the users table holds it
SeedUser == [id |-> UserUuid(1), username |-> "ann", password |-> [plain |-> "pw", salt |-> 1], email |-> "a@x", nickname |-> "Ann", introduction |-> ""]

ComicInit ==
  /\ comics = <<>>
  /\ comicBookTags = <<>>
  /\ chapters = <<>>
  /\ proc = [p \in Procs |-> Idle]
  /\ last = NoLast
  /\ nextComic = 1
  /\ nextChapter = 1
  /\ viewIssued = <<>>
  /\ createdTags = <<>>
  /\ deleted = {}
  /\ ClientInit

Init ==
  /\ ComicInit
  /\ users = {SeedUser}
  /\ userPermissions = {DefaultPermission(SeedUser.id)}
  /\ req = [r \in Reqs |-> IdleReq]

\* the controllers called one call at a time, with every kind of id
Next ==
  \E p \in SeqProcs :
    \/ CreateComicCall(p, SeqMaxComics, <<"A">>, UserUuid(1), <<"t1">>, "r1")
    \/ CreateComicInsert(p)
    \/ \E id \in ComicIdInputs : UpdateComicReject(p, id)
    \/ \E id \in ComicIdInputs : UpdateComicCall(p, id, <<"A">>, <<>>, UNDEFINED)
    \/ UpdateComicUpdate(p)
    \/ TxInsertTags(p)
    \/ TxCommit(p)
    \/ TxRollback(p)
    \/ \E id \in ComicIdInputs : DeleteComicReject(p, id)
    \/ \E id \in ComicIdInputs : DeleteComicCall(p, id)
    \/ DeleteComicQuery(p)
    \/ \E id \in ComicIdInputs : UpdateViewComicReject(p, id)
    \/ \E id \in ComicIdInputs : UpdateViewComicCall(p, id)
    \/ UpdateViewComicQuery(p)
    \/ \E id \in ComicIdInputs : GetComicReject(p, id)
    \/ \E id \in ComicIdInputs : GetComicCall(p, id)
    \/ GetComicReadComic(p)
    \/ GetComicReadThumbnail(p)
    \/ GetComicReadTags(p)
    \/ \E id \in ComicIdInputs : HasComicReject(p, id)
    \/ \E id \in ComicIdInputs : HasComicCall(p, id)
    \/ HasComicQuery(p)
    \/ \E id \in ComicIdInputs : SearchComicCall(p, <<"a">>, id)
    \/ SearchComicQuery(p)
    \/ \E name \in ChapterNames, comicId \in ComicIdInputs, postedBy \in ChapterPosterInputs : CreateChapterReject(p, name, comicId, postedBy)
    \/ \E name \in ChapterNames, comicId \in ComicIdInputs, postedBy \in ChapterPosterInputs : CreateChapterCall(p, name, comicId, postedBy, 1)
    \/ CreateChapterInsert(p)
    \/ \E id \in ComicIdInputs : GetChaptersFromComicReject(p, id)
    \/ \E id \in ComicIdInputs : GetChaptersFromComicCall(p, id, NoFilter)
    \/ GetChaptersFromComicQuery(p)
    \/ \E id \in ChapterIdInputs : GetChapterReject(p, id)
    \/ \E id \in ChapterIdInputs : GetChapterCall(p, id)
    \/ GetChapterQuery(p)
    \/ \E id \in ChapterIdInputs : UpdateChapterLengthReject(p, id)
    \/ \E id \in ChapterIdInputs, length \in ChapterLengths : UpdateChapterLengthCall(p, id, length)
    \/ UpdateChapterLengthQuery(p)

Spec == Init /\ [][Next]_vars

\* concurrent callers of the comic controller's writing functions
ConcNext ==
  \E p \in Procs :
    \/ \E name \in ConcNames, tags \in ConcTagLists : CreateComicCall(p, ConcMaxComics, name, UserUuid(1), tags, "r1")
    \/ CreateComicInsert(p)
    \/ \E id \in KnownComicIds, name \in ConcNames, tags \in ConcTagLists : UpdateComicCall(p, id, name, tags, UNDEFINED)
    \/ UpdateComicUpdate(p)
    \/ TxInsertTags(p)
    \/ TxCommit(p)
    \/ TxRollback(p)
    \/ \E id \in KnownComicIds : DeleteComicCall(p, id)
    \/ DeleteComicQuery(p)
    \/ \E id \in KnownComicIds : UpdateViewComicCall(p, id)
    \/ UpdateViewComicQuery(p)

ConcSpec == Init /\ [][ConcNext]_vars

\* createComic, updateComic and getComic called one call at a time, with every
\* tag list, poster and thumbnail
ComicNext ==
  \E p \in SeqProcs :
    \/ \E postedBy \in PosterInputs, tags \in TagLists, thumbnail \in ThumbnailInputs : CreateComicCall(p, SeqMaxComics, <<"A">>, postedBy, tags, thumbnail)
    \/ CreateComicInsert(p)
    \/ \E id \in KnownComicIds, tags \in TagLists, thumbnail \in ThumbnailInputs : UpdateComicCall(p, id, <<"A", "!">>, tags, thumbnail)
    \/ UpdateComicUpdate(p)
    \/ TxInsertTags(p)
    \/ TxCommit(p)
    \/ TxRollback(p)
    \/ \E id \in KnownComicIds : GetComicCall(p, id)
    \/ GetComicReadComic(p)
    \/ GetComicReadThumbnail(p)
    \/ GetComicReadTags(p)

ComicSpec == Init /\ [][ComicNext]_vars

\* createComic and updateComic called one call at a time, with every name
SlugNext ==
  \E p \in SeqProcs :
    \/ \E name \in Names : CreateComicCall(p, SeqMaxComics, name, UserUuid(1), <<>>, "r1")
    \/ CreateComicInsert(p)
    \/ \E id \in KnownComicIds, name \in Names : UpdateComicCall(p, id, name, <<>>, UNDEFINED)
    \/ UpdateComicUpdate(p)
    \/ TxInsertTags(p)
    \/ TxCommit(p)
    \/ TxRollback(p)

SlugSpec == Init /\ [][SlugNext]_vars

\* a comic that a committed createComic call has stored
SeedComic == NewComic(ComicUuid(1), <<"A">>, "d", UserUuid(1), "a", "Comic", "r1")

ViewInit ==
  /\ comics = (ComicUuid(1) :> SeedComic)
  /\ comicBookTags = <<>>
  /\ chapters = <<>>
  /\ proc = [p \in Procs |-> Idle]
  /\ last = NoLast
  /\ nextComic = 2
  /\ nextChapter = 1
  /\ viewIssued = <<>>
  /\ createdTags = (ComicUuid(1) :> <<>>)
  /\ deleted = {}
  /\ ClientInit
  /\ users = {SeedUser}
  /\ userPermissions = {DefaultPermission(SeedUser.id)}
  /\ req = [r \in Reqs |-> IdleReq]

\* concurrent updateViewComic calls on a stored comic, interleaved with
\* updateComic and deleteComic calls on it
ViewNext ==
  \E p \in Procs :
    \/ \E id \in KnownComicIds : UpdateViewComicCall(p, id)
    \/ UpdateViewComicQuery(p)
    \/ \E id \in KnownComicIds : UpdateComicCall(p, id, <<"A", "!">>, <<>>, UNDEFINED)
    \/ UpdateComicUpdate(p)
    \/ TxInsertTags(p)
    \/ TxCommit(p)
    \/ TxRollback(p)
    \/ \E id \in KnownComicIds : DeleteComicCall(p, id)
    \/ DeleteComicQuery(p)

ViewSpec == ViewInit /\ [][ViewNext]_vars

\* ---------------------------------------------------------------- POST /signup
\* the checks before the first await
SignupError(b) ==
  IF ~Truthy(b.username) \/ ~Truthy(b.password) \/ ~Truthy(b.email) \/ ~Truthy(b.nickname) THEN "MissingRequiredFields"
  ELSE IF ~IsValidNickname(b.nickname) THEN "InvalidNickname"
  ELSE IF ~IsEmail(b.email) THEN "InvalidEmail"
  ELSE IF ~IsValidIntroduction(b.introduction) THEN "InvalidIntroduction"
  ELSE ""

Signup(r, b) ==
  /\ req[r].pc \in {"idle", "done"}
  /\ IF SignupError(b) # ""
     THEN req' = [req EXCEPT ![r] = [Start(r, "signup", b) EXCEPT !.pc = "done", !.resp = MiddlewareError(SignupError(b), 400)]]
     ELSE req' = [req EXCEPT ![r] = [Start(r, "signup", b) EXCEPT !.pc = "hasUser", !.calls = <<"hasUserByUsername">>]]
  /\ UNCHANGED <<users, userPermissions>>
  /\ UNCHANGED <<comicVars, clientVars>>

\* if (await UserController.hasUserByUsername(username))
SignupHasUser(r) ==
  /\ req[r].pc = "hasUser"
  /\ IF HasUserByUsername(req[r].body.username)
     THEN Respond(r, MiddlewareError("UserAlreadyExists", 400))
     ELSE Await(r, "createUser", "createUser")
  /\ UNCHANGED <<users, userPermissions>>
  /\ UNCHANGED <<comicVars, clientVars>>

\* the response body: the created user without its password
FilteredResponseUser(u) == [id |-> u.id, username |-> u.username, email |-> u.email, nickname |-> u.nickname, introduction |-> u.introduction]

\* await UserController.createUser(...): an insert the unique indexes reject
\* throws, and the catch block answers 500
SignupCreateUser(r) ==
  /\ req[r].pc = "createUser"
  /\ LET b == req[r].body
         u == NewUser(b.username, b.password, b.email, b.nickname, IF Truthy(b.introduction) THEN b.introduction ELSE "")
     IN IF UniqueOk(u)
        THEN /\ users' = users \cup {u}
             /\ userPermissions' = userPermissions \cup {DefaultPermission(u.id)}
             /\ req' = [req EXCEPT ![r].pc = "done", ![r].uid = u.id, ![r].resp = [NoResp EXCEPT !.status = 201, !.body = FilteredResponseUser(u)]]
        ELSE /\ UNCHANGED <<users, userPermissions>>
             /\ Respond(r, MiddlewareError("UnexpectedError", 500))
  /\ UNCHANGED <<comicVars, clientVars>>

\* ---------------------------------------------------------------- POST /signin
Signin(r, b) ==
  /\ req[r].pc \in {"idle", "done"}
  /\ IF ~Truthy(b.username) \/ ~Truthy(b.password)
     THEN req' = [req EXCEPT ![r] = [Start(r, "signin", b) EXCEPT !.pc = "done", !.resp = MiddlewareError("MissingRequiredFields", 400)]]
     ELSE req' = [req EXCEPT ![r] = [Start(r, "signin", b) EXCEPT !.pc = "getUser", !.calls = <<"getUserFromUsername">>]]
  /\ UNCHANGED <<users, userPermissions>>
  /\ UNCHANGED <<comicVars, clientVars>>

UserNotFoundAs404 == MiddlewareError("UserNotFound", 404)
UserNotFoundError == MiddlewareError("UserNotFound", 400)
IncorrectPasswordError == MiddlewareError("IncorrectPassword", 400)

\* const user = await UserController.getUserFromUsername(username), then the
\* password check
SigninGetUser(r) ==
  /\ req[r].pc = "getUser"
  /\ LET found == GetUserFromUsername(req[r].body.username)
     IN IF found = {} THEN Respond(r, UserNotFoundError)
        ELSE LET user == CHOOSE u \in found : TRUE
             IN IF ~CompareSync(req[r].body.password, user.password)
                THEN Respond(r, IncorrectPasswordError)
                ELSE req' = [req EXCEPT ![r].pc = "token", ![r].uid = user.id, ![r].calls = Append(@, "generateToken")]
  /\ UNCHANGED <<users, userPermissions>>
  /\ UNCHANGED <<comicVars, clientVars>>

\* const token = await generateToken({ id: user.id, generatedAt: new Date() })
SigninToken(r) ==
  /\ req[r].pc = "token"
  /\ Respond(r, [NoResp EXCEPT !.status = 200, !.token = [id |-> req[r].uid, generatedAt |-> "now"]])
  /\ UNCHANGED <<users, userPermissions>>
  /\ UNCHANGED <<comicVars, clientVars>>

\* ---------------------------------------------------------------- PUT /profile
\* getAuth: req.TokenRequest is the token presented, req.UserRequest the user it names
TokenRequest(b) == b.token
UserRequest(b) == {u \in users : u.id = b.token}
\* userRequest.hasPermission(...) is an async method called without await: the
\* handler negates the Promise it returns
HasPermission(uid, permission) == "[object Promise]"
JsNot(v) == v \in {"", "false", UNDEFINED, NULL}

NothingProvidedExceptIntroduction(nickname, introduction) == ~Truthy(nickname) /\ Truthy(introduction)
\* if (!nickname && !introduction)
NothingProvided(nickname, introduction) == ~Truthy(nickname) /\ ~Truthy(introduction)

\* the getAuth middleware runs first
PutProfile(r, b) ==
  /\ req[r].pc \in {"idle", "done"}
  /\ req' = [req EXCEPT ![r] = [Start(r, "putProfile", b) EXCEPT !.pc = "handler", !.calls = <<"getAuth">>,
                                  !.uid = IF UserRequest(b) = {} THEN <<>> ELSE b.token]]
  /\ UNCHANGED <<users, userPermissions>>
  /\ UNCHANGED <<comicVars, clientVars>>

\* the handler up to its first await
PutProfileHandler(r) ==
  /\ req[r].pc = "handler"
  /\ LET b == req[r].body
     IN IF ~TruthyId(TokenRequest(b)) THEN Respond(r, MiddlewareError("NoTokenProvided", 400))
        ELSE IF ~TruthyId(req[r].uid) THEN Respond(r, MiddlewareError("Unauthorized", 401))
        ELSE IF JsNot(HasPermission(req[r].uid, "USER_UPDATE_PROFILE")) THEN Respond(r, MiddlewareError("Unauthorized", 401))
        ELSE IF NothingProvided(b.nickname, b.introduction) THEN Respond(r, [NoResp EXCEPT !.status = 304])
        ELSE IF Truthy(b.nickname) /\ ~IsValidNickname(b.nickname) THEN Respond(r, MiddlewareError("InvalidNickname", 400))
        ELSE IF Truthy(b.introduction) /\ ~IsValidIntroduction(b.introduction) THEN Respond(r, MiddlewareError("InvalidIntroduction", 400))
        ELSE Await(r, "updateProfile", "updateUserProfile")
  /\ UNCHANGED <<users, userPermissions>>
  /\ UNCHANGED <<comicVars, clientVars>>

\* await UserController.updateUserProfile(userRequest.id, nickname, introduction)
PutProfileUpdate(r) ==
  /\ req[r].pc = "updateProfile"
  /\ users' = {IF u.id = req[r].uid THEN UpdatedProfile(u, req[r].body.nickname, req[r].body.introduction) ELSE u : u \in users}
  /\ Respond(r, [NoResp EXCEPT !.status = 204])
  /\ UNCHANGED userPermissions
  /\ UNCHANGED <<comicVars, clientVars>>

\* ---------------------------------------------------------------- POST /profile
\* the getAuth middleware runs first
PostProfile(r, b) ==
  /\ req[r].pc \in {"idle", "done"}
  /\ req' = [req EXCEPT ![r] = [Start(r, "postProfile", b) EXCEPT !.pc = "profileHandler", !.calls = <<"getAuth">>,
                                  !.uid = IF UserRequest(b) = {} THEN <<>> ELSE b.token]]
  /\ UNCHANGED <<users, userPermissions>>
  /\ UNCHANGED <<comicVars, clientVars>>

\* the handler up to role: await userRequest.getRole()
PostProfileHandler(r) ==
  /\ req[r].pc = "profileHandler"
  /\ IF ~TruthyId(TokenRequest(req[r].body)) THEN Respond(r, MiddlewareError("NoTokenProvided", 400))
     ELSE IF ~TruthyId(req[r].uid) THEN Respond(r, MiddlewareError("Unauthorized", 401))
     ELSE Await(r, "getRole", "getRole")
  /\ UNCHANGED <<users, userPermissions>>
  /\ UNCHANGED <<comicVars, clientVars>>

\* role resolved, permissions: await userRequest.getPermissions()
PostProfileGetRole(r) ==
  /\ req[r].pc = "getRole"
  /\ req' = [req EXCEPT ![r].pc = "getPermissions", ![r].calls = Append(@, "getPermissions"),
                        ![r].resp.role = IF GroupOf(req[r].uid) = {} THEN "" ELSE CHOOSE g \in GroupOf(req[r].uid) : TRUE]
  /\ UNCHANGED <<users, userPermissions>>
  /\ UNCHANGED <<comicVars, clientVars>>

\* res.json({ id, username, email, nickname, role, permissions })
PostProfileGetPermissions(r) ==
  /\ req[r].pc = "getPermissions"
  /\ \E u \in users :
       /\ u.id = req[r].uid
       /\ Respond(r, [req[r].resp EXCEPT !.status = 200, !.permissions = PermissionsOf(u.id),
                        !.body = [id |-> u.id, username |-> u.username, email |-> u.email, nickname |-> u.nickname]])
  /\ UNCHANGED <<users, userPermissions>>
  /\ UNCHANGED <<comicVars, clientVars>>

\* ---------------------------------------------------------------- GET /:id
\* const user = await UserController.getUserFromUUID(req.params.id)
GetUser(r, b) ==
  /\ req[r].pc \in {"idle", "done"}
  /\ req' = [req EXCEPT ![r] = [Start(r, "getUser", b) EXCEPT !.pc = "getUserFromUUID", !.calls = <<"getUserFromUUID">>]]
  /\ UNCHANGED <<users, userPermissions>>
  /\ UNCHANGED <<comicVars, clientVars>>

GetUserRespond(r) ==
  /\ req[r].pc = "getUserFromUUID"
  /\ LET found == {u \in users : u.id = req[r].body.id}
     IN IF found = {} THEN Respond(r, MiddlewareError("UserNotFound", 400))
        ELSE LET user == CHOOSE u \in found : TRUE
             IN Respond(r, [NoResp EXCEPT !.status = 200, !.body = [id |-> user.id, username |-> user.username, nickname |-> user.nickname]])
  /\ UNCHANGED <<users, userPermissions>>
  /\ UNCHANGED <<comicVars, clientVars>>

\* ---------------------------------------------------------------- user specifications
SignupInputs == [username : {"", "ann", "bob"}, password : {UNDEFINED, "pw"}, email : {"", "bad", "a@x", "b@x"}, nickname : {"", "!", "Ann"}, introduction : {UNDEFINED, "<x>", "hi"}, token : {<<>>}, id : {<<>>}]
SigninInputs == [username : {UNDEFINED, "ann", "bob"}, password : {UNDEFINED, "pw", "xx"}, email : {UNDEFINED}, nickname : {UNDEFINED}, introduction : {UNDEFINED}, token : {<<>>}, id : {<<>>}]
ProfileInputs == [username : {UNDEFINED}, password : {UNDEFINED}, email : {UNDEFINED}, nickname : {UNDEFINED, "!", "Bo"}, introduction : {UNDEFINED, "<x>", "hi"}, token : {<<>>, UserUuid(1), StrayUuid}, id : {<<>>}]
ValidSignups == [username : {"ann"}, password : {"pw"}, email : {"a@x", "b@x"}, nickname : {"Ann"}, introduction : {UNDEFINED}, token : {<<>>}, id : {<<>>}]

UserInit ==
  /\ ComicInit
  /\ users = {}
  /\ userPermissions = {}
  /\ req = [r \in Reqs |-> IdleReq]

\* the user routes, one request at a time
UserNext ==
  \E r \in SeqReqs :
    \/ \E b \in SignupInputs : Signup(r, b)
    \/ SignupHasUser(r)
    \/ SignupCreateUser(r)
    \/ \E b \in SigninInputs : Signin(r, b)
    \/ SigninGetUser(r)
    \/ SigninToken(r)
    \/ \E b \in ProfileInputs : PutProfile(r, b)
    \/ PutProfileHandler(r)
    \/ PutProfileUpdate(r)

UserSpec == UserInit /\ [][UserNext]_vars

\* concurrent signup requests
SignupNext ==
  \E r \in Reqs :
    \/ \E b \in ValidSignups : Signup(r, b)
    \/ SignupHasUser(r)
    \/ SignupCreateUser(r)

SignupSpec == UserInit /\ [][SignupNext]_vars

\* concurrent signin requests against a table holding one user
SigninNext ==
  \E r \in Reqs :
    \/ \E b \in SigninInputs : Signin(r, b)
    \/ SigninGetUser(r)
    \/ SigninToken(r)

SigninSpec == Init /\ [][SigninNext]_vars

\* the authenticated routes and the public read over a table holding a user of
\* the USER group and a user of a group without USER_UPDATE_PROFILE
AuthTokens == {<<>>, UserUuid(1), UserUuid(2), StrayUuid}
AuthInputs == [username : {UNDEFINED}, password : {UNDEFINED}, email : {UNDEFINED}, nickname : {UNDEFINED, "!", "Ann"}, introduction : {UNDEFINED, "hi"}, token : AuthTokens, id : {<<>>}]
TokenInputs == [username : {UNDEFINED}, password : {UNDEFINED}, email : {UNDEFINED}, nickname : {UNDEFINED}, introduction : {UNDEFINED}, token : AuthTokens, id : {<<>>}]
UserIdInputs == [username : {UNDEFINED}, password : {UNDEFINED}, email : {UNDEFINED}, nickname : {UNDEFINED}, introduction : {UNDEFINED}, token : {<<>>}, id : {UserUuid(1), StrayUuid}]

ProfileInit ==
  /\ ComicInit
  /\ users = {SeedUser, RestrictedUser}
  /\ userPermissions = {DefaultPermission(SeedUser.id), RestrictedPermission}
  /\ req = [r \in Reqs |-> IdleReq]

ProfileNext ==
  \E r \in SeqReqs :
    \/ \E b \in AuthInputs : PutProfile(r, b)
    \/ PutProfileHandler(r)
    \/ PutProfileUpdate(r)
    \/ \E b \in TokenInputs : PostProfile(r, b)
    \/ PostProfileHandler(r)
    \/ PostProfileGetRole(r)
    \/ PostProfileGetPermissions(r)
    \/ \E b \in UserIdInputs : GetUser(r, b)
    \/ GetUserRespond(r)

ProfileSpec == ProfileInit /\ [][ProfileNext]_vars

\* ---------------------------------------------------------------- failing calls
AwaitPcs == {"hasUser", "createUser", "getUser", "token", "getRole", "getPermissions", "getUserFromUUID", "updateProfile"}

\* the controller or token call request r awaits rejects: signup awaits inside
\* try/catch and answers 500; the other handlers are async functions without a
\* catch, their promise rejects and nothing answers the request
CallFails(r) ==
  /\ req[r].pc \in AwaitPcs
  /\ IF req[r].route = "signup"
     THEN Respond(r, MiddlewareError("UnexpectedError", 500))
     ELSE req' = [req EXCEPT ![r].pc = "unanswered"]
  /\ UNCHANGED <<users, userPermissions>>
  /\ UNCHANGED <<comicVars, clientVars>>

FailSignups == [username : {"ann", "cat"}, password : {"pw"}, email : {"c@x"}, nickname : {"Ann"}, introduction : {UNDEFINED}, token : {<<>>}, id : {<<>>}]
FailSignins == [username : {"ann", "cat"}, password : {"pw"}, email : {UNDEFINED}, nickname : {UNDEFINED}, introduction : {UNDEFINED}, token : {<<>>}, id : {<<>>}]
FailProfiles == [username : {UNDEFINED}, password : {UNDEFINED}, email : {UNDEFINED}, nickname : {UNDEFINED, "Ann"}, introduction : {UNDEFINED}, token : {<<>>, UserUuid(1)}, id : {<<>>}]

\* a request arrives
Arrive(r) ==
  \/ \E b \in FailSignups : Signup(r, b)
  \/ \E b \in FailSignins : Signin(r, b)
  \/ \E b \in FailProfiles : PostProfile(r, b)
  \/ \E b \in UserIdInputs : GetUser(r, b)
  \/ \E b \in FailProfiles : PutProfile(r, b)

\* the handler of request r runs to its next await or to its answer
Continue(r) ==
  \/ SignupHasUser(r)
  \/ SignupCreateUser(r)
  \/ SigninGetUser(r)
  \/ SigninToken(r)
  \/ PostProfileHandler(r)
  \/ PostProfileGetRole(r)
  \/ PostProfileGetPermissions(r)
  \/ GetUserRespond(r)
  \/ PutProfileHandler(r)
  \/ PutProfileUpdate(r)

FailNext == \E r \in Reqs : Arrive(r) \/ Continue(r) \/ CallFails(r)

\* the event loop runs every pending continuation
FailSpec == ProfileInit /\ [][FailNext]_vars /\ \A r \in Reqs : WF_vars(Continue(r) \/ CallFails(r))

\* every operation that touches or reads a comic, one call at a time, over up
\* to FrameMaxComics comics
FrameNext ==
  \E p \in SeqProcs :
    \/ CreateComicCall(p, FrameMaxComics, <<"A">>, UserUuid(1), <<>>, "r1")
    \/ CreateComicInsert(p)
    \/ \E id \in KnownComicIds : UpdateComicCall(p, id, <<"A">>, <<>>, UNDEFINED)
    \/ UpdateComicUpdate(p)
    \/ TxInsertTags(p)
    \/ TxCommit(p)
    \/ TxRollback(p)
    \/ \E id \in KnownComicIds : DeleteComicCall(p, id)
    \/ DeleteComicQuery(p)
    \/ \E id \in KnownComicIds : UpdateViewComicCall(p, id)
    \/ UpdateViewComicQuery(p)
    \/ \E id \in KnownComicIds : GetComicCall(p, id)
    \/ GetComicReadComic(p)
    \/ GetComicReadThumbnail(p)
    \/ GetComicReadTags(p)
    \/ \E id \in KnownComicIds : SearchComicCall(p, <<"a">>, id)
    \/ SearchComicQuery(p)
    \/ \E comicId \in KnownComicIds : CreateChapterCall(p, "ch", comicId, UserUuid(1), 1)
    \/ CreateChapterInsert(p)

FrameSpec == Init /\ [][FrameNext]_vars

\* getChaptersFromComic over a comic of four chapters with lengths recorded and
\* a comic of one chapter
PagedChapter(n, comicNo, length) == [id |-> ChapterUuid(n), name |-> "ch", comicId |-> ComicUuid(comicNo), postedBy |-> UserUuid(1), viewType |-> 1, createdAt |-> n, length |-> length]
PageLimits == {Omitted, 1, 2}
PageNumbers == {Omitted, 0, 1, 2}
Filters == [limit : PageLimits, page : PageNumbers, sortedBy : {UNDEFINED, "length"}, order : {UNDEFINED, "desc"}]

PageInit ==
  /\ comics = (ComicUuid(1) :> SeedComic) @@ (ComicUuid(2) :> NewComic(ComicUuid(2), <<"A">>, "d", UserUuid(1), "a", "Comic", "r1"))
  /\ comicBookTags = <<>>
  /\ chapters = [c \in {ChapterUuid(n) : n \in 1..5} |->
                   IF c = ChapterUuid(1) THEN PagedChapter(1, 1, 30)
                   ELSE IF c = ChapterUuid(2) THEN PagedChapter(2, 1, 10)
                   ELSE IF c = ChapterUuid(3) THEN PagedChapter(3, 2, 50)
                   ELSE IF c = ChapterUuid(4) THEN PagedChapter(4, 1, 40)
                   ELSE PagedChapter(5, 1, 20)]
  /\ proc = [p \in Procs |-> Idle]
  /\ last = NoLast
  /\ nextComic = 3
  /\ nextChapter = 6
  /\ viewIssued = <<>>
  /\ createdTags = (ComicUuid(1) :> <<>>) @@ (ComicUuid(2) :> <<>>)
  /\ deleted = {}
  /\ ClientInit
  /\ users = {SeedUser}
  /\ userPermissions = {DefaultPermission(SeedUser.id)}
  /\ req = [r \in Reqs |-> IdleReq]

PageNext ==
  \E p \in SeqProcs :
    \/ \E id \in NonUuids : GetChaptersFromComicReject(p, id)
    \/ \E id \in {ComicUuid(1), ComicUuid(2)}, filter \in Filters : GetChaptersFromComicCall(p, id, filter)
    \/ GetChaptersFromComicQuery(p)

PageSpec == PageInit /\ [][PageNext]_vars

\* the UpdateComic form: edits, thumbnail uploads and saves
InfoFields == {"name", "author", "description"}
InfoValues == {"", "x"}
CategoryOptions == {[value |-> "Novel", label |-> "Truyen chu"]}
TagOptionLists == {<<>>, <<[value |-> "t1", label |-> "T1"]>>}
FileLists == {<<>>, <<"a.png">>}
ImgInfos == {[id |-> "r1", fileName |-> "f1"]}

FormNext ==
  \/ \E name \in InfoFields, value \in InfoValues : HandleChangeComicInfo(name, value)
  \/ \E selectedOption \in CategoryOptions : HandleChangeCategory(selectedOption)
  \/ \E selectedOptions \in TagOptionLists : HandleChangeTags(selectedOptions)
  \/ \E files \in FileLists : HandleChangeThumbnail(files)
  \/ \E u \in uploads, imgInfo \in ImgInfos : UploadResolves(u, imgInfo)
  \/ \E u \in uploads : UploadRejects(u)
  \/ HandleSave
  \/ SaveSettles

FormSpec == Init /\ [][FormNext]_vars

\* ---------------------------------------------------------------- claims
IdOps == {"getComic", "updateComic", "deleteComic", "updateViewComic", "hasComic", "searchComic", "getChapter", "getChaptersFromComic", "updateChapterLength", "createChapter"}
ValidatingIdOps == IdOps \ {"searchComic"}
HasNonUuid(ids) == \E id \in ids : ~IsUUID(id)

\* C1 (as stated): every id-accepting controller operation, searchComic by id
\* included, rejects a non-UUID id with an error before it issues any query.
C1_EveryIdOpRejectsNonUuid ==
  last.op \in IdOps /\ HasNonUuid(last.ids) => last.result = "error" /\ last.q = 0

\* C1 (amended): every id-accepting controller operation other than searchComic
\* rejects a non-UUID id with an error, before any query is issued and with
\* every table left as it was.
C1_ValidatingOpsRejectBeforeQuery ==
  [][last'.op \in ValidatingIdOps /\ HasNonUuid(last'.ids)
       => last'.result = "error" /\ last'.q = 0 /\ UNCHANGED <<comics, comicBookTags, chapters, users>>]_vars

C1_Witness ==
  /\ last.op = "updateComic" /\ last.ids = {<<"42", 0>>} /\ last.result = "error" /\ last.q = 0
  /\ ComicIds # {}

\* C2 (as stated): getComic on a comic createComic has created (and nothing has
\* updated) returns a record whose tags are exactly the tag ids given to createComic.
C2_GetAfterCreateReturnsTags ==
  \A id \in last.ids :
    last.op = "getComic" /\ id \in ComicIds /\ (\A i \in 1..Len(comicBookTags) : comicBookTags[i].src # "updateComic")
      => last.result = "ok" /\ {last.tags[i] : i \in 1..Len(last.tags)} = {createdTags[id][i] : i \in 1..Len(createdTags[id])}

InFlightViews(id) == Cardinality({p \in Procs : proc[p].pc = "view" /\ proc[p].id = id})

\* C3: however the updateViewComic calls for an existing comic interleave with
\* each other and with createComic, updateComic and deleteComic, the comic's
\* views equal the number of calls issued for it that have run their statement:
\* no increment is lost.
C3_NoViewIncrementLost ==
  \A id \in ComicIds : comics[id].views + InFlightViews(id) = Issued(id)

C3_Witness ==
  \E id \in ComicIds :
    /\ comics[id].views = 1 /\ InFlightViews(id) = 1
    /\ \E p \in Procs : proc[p].op = "updateComic" /\ proc[p].pc = "commit" /\ proc[p].id = id

CreateRowTags(id) == TagIdsOfAllRows(SelectSeq(comicBookTags, LAMBDA r : r.src = "createComic"), id)

\* C8 (as stated): in every reachable state the comic row a createComic call
\* wrote exists if and only if all tag rows of that call exist.
C8_ComicRowIffTagRows ==
  \A id \in DOMAIN createdTags :
    createdTags[id] # <<>> => ((id \in ComicIds) <=> (CreateRowTags(id) = createdTags[id]))

\* C9: every stored comic's slug is the slug derivation of its current name,
\* whether createComic or updateComic wrote it, and holds no upper-case letter
\* and none of the removed characters.
C9_SlugDerivedFromName ==
  \A id \in ComicIds :
    /\ comics[id].slug = Slugify(comics[id].name)
    /\ \A i \in 1..Len(comics[id].slug) : comics[id].slug[i] \notin RemoveChars \cup UpperChars

C9_Witness ==
  /\ last.op = "updateComic" /\ last.result = "ok"
  /\ \E id \in last.ids \cap ComicIds : comics[id].name = <<"A">> /\ comics[id].slug = <<"a">>

\* ---------------------------------------------------------------- user claims
SignupDone(r) == req[r].route = "signup" /\ req[r].pc = "done"
SigninDone(r) == req[r].route = "signin" /\ req[r].pc = "done"
UsernameExists(username) == \E u \in users : u.username = username

\* C4: under any interleaving of signup requests no two user rows share a
\* username, and every signup that loses to a taken username is answered with
\* 400 "user already exists".
C4_DuplicateSignupGets400 ==
  /\ \A u, v \in users : u.username = v.username => u = v
  /\ \A r \in Reqs :
       SignupDone(r) /\ req[r].resp.status # 201
         /\ (\E u \in users : u.username = req[r].body.username /\ u.id # req[r].uid)
       => req[r].resp.status = 400 /\ req[r].resp.msg = "UserAlreadyExists"

WrongPassword(r) ==
  /\ SigninDone(r)
  /\ Truthy(req[r].body.password)
  /\ \E u \in users : u.username = req[r].body.username /\ u.password.plain # req[r].body.password
UnknownUsername(r) ==
  /\ SigninDone(r)
  /\ Truthy(req[r].body.username) /\ Truthy(req[r].body.password)
  /\ ~UsernameExists(req[r].body.username)

\* C5: the response to a signin with a wrong password for an existing username
\* is identical, status and message, to the response to a signin for a
\* username that does not exist.
C5_FailedSigninResponsesIdentical ==
  \A r1, r2 \in Reqs : WrongPassword(r1) /\ UnknownUsername(r2) => req[r1].resp = req[r2].resp

\* C5 (amended): both failed signins get status 400 and no token, but their
\* messages differ: "incorrect password" for an existing username, "user not
\* found" for an unknown one.
C5_FailedSigninSameStatusOnly ==
  \A r1, r2 \in Reqs :
    WrongPassword(r1) /\ UnknownUsername(r2) =>
      /\ req[r1].resp.status = 400 /\ req[r2].resp.status = 400
      /\ req[r1].resp.token = NoToken /\ req[r2].resp.token = NoToken
      /\ req[r1].resp.msg = "IncorrectPassword"
      /\ req[r2].resp.msg = "UserNotFound"

C5_Witness == \E r1, r2 \in Reqs : WrongPassword(r1) /\ UnknownUsername(r2)

\* C6: a finished signin carries a token exactly when its username exists and
\* its password matches that user's stored hash, the token then embeds that
\* user's id; every other signin is answered with 400 and no token.
C6_TokenIffCredentialsMatch ==
  \A r \in Reqs :
    SigninDone(r) =>
      LET b == req[r].body
          matching == IF Truthy(b.username) /\ Truthy(b.password)
                      THEN {u \in users : u.username = b.username /\ u.password.plain = b.password}
                      ELSE {}
      IN IF matching # {}
         THEN /\ req[r].resp.status = 200
              /\ \E u \in matching : req[r].resp.token.id = u.id
         ELSE /\ req[r].resp.status = 400
              /\ req[r].resp.token = NoToken

C6_Witness ==
  \E r \in Reqs : SigninDone(r) /\ req[r].resp.status = 200 /\ req[r].resp.token.id = UserUuid(1)

Authenticated(b) == \E u \in users : u.id = b.token
CallsOf(r) == {req[r].calls[i] : i \in 1..Len(req[r].calls)}

\* C7: every step of an authenticated PUT /profile request that supplies
\* neither nickname nor introduction leaves every table unchanged, never
\* calls updateUserProfile, and the request ends with 304.
C7_EmptyProfileUpdateIs304 ==
  [][\A r \in Reqs :
       /\ req'[r] # req[r]
       /\ req'[r].route = "putProfile"
       /\ Authenticated(req'[r].body)
       /\ req'[r].body.nickname = UNDEFINED /\ req'[r].body.introduction = UNDEFINED
       => /\ UNCHANGED <<users, comics, comicBookTags, chapters>>
          /\ req'[r].pc # "updateProfile"
          /\ \A i \in 1..Len(req'[r].calls) : req'[r].calls[i] # "updateUserProfile"
          /\ (req'[r].pc = "done" => req'[r].resp.status = 304)]_vars

C7_Witness ==
  \E r \in Reqs :
    /\ req[r].route = "putProfile" /\ req[r].pc = "done"
    /\ Authenticated(req[r].body)
    /\ req[r].body.nickname = UNDEFINED /\ req[r].body.introduction = UNDEFINED
    /\ req[r].resp.status = 304

\* C10: a finished signup that passed every validation with an unused username
\* was answered with 201, a body of exactly id, username, email, nickname and
\* introduction, and its username is on exactly one row; a signup that failed a
\* validation was answered with 400 before any controller call.
C10_SignupCreatesOrRejects ==
  \A r \in Reqs :
    SignupDone(r) =>
      /\ SignupError(req[r].body) = "" /\ "createUser" \in CallsOf(r) =>
           /\ req[r].resp.status = 201
           /\ DOMAIN req[r].resp.body = {"id", "username", "email", "nickname", "introduction"}
           /\ Cardinality({u \in users : u.username = req[r].body.username}) = 1
      /\ SignupError(req[r].body) # "" =>
           /\ req[r].resp.status = 400
           /\ req[r].calls = <<>>

LacksPermission(r) == TruthyId(req[r].uid) /\ "USER_UPDATE_PROFILE" \notin PermissionsOf(req[r].uid)

\* C11: a PUT /profile request of an authenticated user whose permission group
\* lacks USER_UPDATE_PROFILE never reaches updateUserProfile and is answered
\* with 401.
C11_ProfileChangeNeedsPermission ==
  \A r \in Reqs :
    req[r].route = "putProfile" /\ LacksPermission(r) =>
      /\ req[r].pc # "updateProfile"
      /\ "updateUserProfile" \notin CallsOf(r)
      /\ (req[r].pc = "done" => req[r].resp.status = 401)

\* C12: every finished POST /profile or PUT /profile request that failed
\* authorization (no token, a token naming no user, or for PUT /profile a user
\* lacking USER_UPDATE_PROFILE) was answered with 401.
C12_AuthorizationFailuresGet401 ==
  \A r \in Reqs :
    /\ req[r].pc = "done"
    /\ req[r].route \in {"postProfile", "putProfile"}
    /\ \/ ~TruthyId(req[r].body.token)
       \/ ~Authenticated(req[r].body)
       \/ req[r].route = "putProfile" /\ LacksPermission(r)
    => req[r].resp.status = 401

\* C13: every request a user route handler has taken up is eventually
\* answered, also when a call it awaits fails.
C13_EveryRequestAnswered ==
  \A r \in Reqs : (req[r].pc \notin {"idle", "done"}) ~> (req[r].pc = "done")

\* C14: every stored reference points at an existing row: a comic's thumbnail
\* at a resource, a comic's and a chapter's postedBy at a user, a chapter's
\* comicId at a comic, a tag-association row's comicId at a comic.
C14_EveryReferenceExists ==
  /\ \A id \in ComicIds : ComicForeignKeysOk(comics[id])
  /\ \A c \in ChapterIds : ChapterForeignKeysOk(chapters[c])
  /\ \A i \in 1..Len(comicBookTags) : comicBookTags[i].comicId \in ComicIds

\* C15: a comic enters the table with views = 0; a step changes a stored
\* comic's views only by adding 1, only as the statement of an updateViewComic
\* call on that comic, and that statement changes nothing else in any table.
C15_ViewsChangeOnlyByIncrement ==
  [][/\ \A id \in DOMAIN comics' \ DOMAIN comics : comics'[id].views = 0
     /\ \A id \in DOMAIN comics \cap DOMAIN comics' :
          comics'[id].views # comics[id].views =>
            /\ comics' = [comics EXCEPT ![id].views = @ + 1]
            /\ \E p \in Procs : proc[p].op = "updateViewComic" /\ proc[p].id = id /\ proc'[p] = Idle
            /\ UNCHANGED <<comicBookTags, chapters, users>>
     /\ \A p \in Procs :
          proc[p].op = "updateViewComic" /\ proc'[p] # proc[p] =>
            /\ \A id \in DOMAIN comics \ {proc[p].id} : id \in DOMAIN comics' /\ comics'[id] = comics[id]
            /\ DOMAIN comics' = DOMAIN comics]_vars

C15_Witness ==
  /\ Cardinality(ComicIds) = 2
  /\ last.op = "updateComic" /\ last.result = "ok"
  /\ \E id \in ComicIds : id \in last.ids /\ comics[id].views = 2
  /\ \E id \in ComicIds : comics[id].views = 0

UpdatedTagRows(id) == \E i \in 1..Len(comicBookTags) : comicBookTags[i].comicId = id /\ comicBookTags[i].src = "updateComic"

\* C16: the commit of an updateComic call with tag list T appends one row per
\* element of T to the tag-association rows and removes none, and a getComic
\* on a comic updateComic has given tag rows returns the tags of all its rows.
C16_UpdateAppendsTags ==
  [][/\ \A p \in Procs :
          proc[p].op = "updateComic" /\ proc[p].pc = "commit" /\ proc'[p] = Idle =>
            /\ Len(comicBookTags') = Len(comicBookTags) + Len(proc[p].tags)
            /\ \A i \in 1..Len(comicBookTags) : comicBookTags'[i] = comicBookTags[i]
            /\ \A i \in 1..Len(proc[p].tags) :
                 /\ comicBookTags'[Len(comicBookTags) + i].comicId = proc[p].id
                 /\ comicBookTags'[Len(comicBookTags) + i].tagId = proc[p].tags[i]
     /\ \A id \in last'.ids :
          last' # last /\ last'.op = "getComic" /\ id \in ComicIds /\ UpdatedTagRows(id) =>
            /\ last'.result = "ok"
            /\ last'.tags = TagIdsOfAllRows(comicBookTags, id)]_vars

\* the chapters of a comic in the requested order, computed from the table
ChaptersInOrder(comicId, filter) ==
  LET mine == {c \in ChapterIds : chapters[c].comicId = comicId}
      key(c) == IF filter.sortedBy = "length" THEN chapters[c].length ELSE chapters[c].createdAt
      rank(c) == IF filter.order = "desc" THEN Cardinality({d \in mine : key(d) > key(c)})
                 ELSE Cardinality({d \in mine : key(d) < key(c)})
  IN [i \in 1..Cardinality(mine) |-> CHOOSE c \in mine : rank(c) = i - 1]

\* C17: for page p (zero-based) and page size L (3 when limit is omitted)
\* getChaptersFromComic returns the comic's chapters at positions p*L to
\* p*L+L-1 of the list in the requested order.
C17_PageHoldsItsPositions ==
  \A id \in last.ids :
    last.op = "getChaptersFromComic" /\ last.result = "ok" /\ last.q = 1 =>
      LET L == IF last.filter.limit = Omitted THEN 3 ELSE last.filter.limit
          pg == IF last.filter.page = Omitted THEN 0 ELSE last.filter.page
          all == ChaptersInOrder(id, last.filter)
      IN /\ \A i \in 1..Len(last.chapters) : pg * L + i <= Len(all) /\ last.chapters[i] = all[pg * L + i]
         /\ \A j \in 1..Len(all) : pg * L < j /\ j <= pg * L + L => j - pg * L <= Len(last.chapters)

\* C18: when a thumbnail upload completes, the form state holds the new
\* thumbnail id together with every field as it stood just before, edits made
\* during the upload included; and handleSave passes the form state to onSave.
C18_NoEditLostToUpload ==
  [][/\ \A u \in uploads :
          u \notin uploads' /\ comic' # comic =>
            /\ comic'.thumbnail \in {i.id : i \in ImgInfos}
            /\ \A f \in DOMAIN comic \ {"thumbnail", "thumbnailImg"} : comic'[f] = comic[f]
     /\ saved' # saved => saved' = comic]_vars

====
